---- MODULE Spec2Model ----
(***************************************************************************)
(* CryptoScout metrics and scoring pipeline:                               *)
(*   merge_datasets -> calculate_financial_metrics -> calculate_venture_score *)
(* (src/utils/data.py, src/utils/metrics.py, driven by src/app.py main).   *)
(*                                                                         *)
(* Tables are sequences of records (one record per DataFrame row).         *)
(* Numbers are exact extended rationals <<n, d>>: d > 0 is the finite      *)
(* value n/d in lowest terms, <<1, 0>> is +inf, <<-1, 0>> is -inf and      *)
(* <<0, 0>> is NaN (pandas' missing value).  Float rounding, overflow and  *)
(* underflow of float64 are not modelled.                                  *)
(* Strings are sequences of one-character strings; the missing string      *)
(* (None/NaN in an object column) is the one-element sequence NA.          *)
(***************************************************************************)
EXTENDS Integers, Sequences, FiniteSets, TLC

VARIABLES
    protocols_df,        \* app.py: table returned by fetch_protocols_data
    protocols_columns,   \* column names of protocols_df
    fees_df,             \* app.py: table returned by fetch_fees_data
    merged_df,           \* app.py: merge_datasets(protocols_df, fees_df)
    metrics_df,          \* app.py: calculate_financial_metrics(merged_df)
    scored_df,           \* app.py: calculate_venture_score(metrics_df)
    protocols_response,  \* what the protocols endpoint answered to fetch_protocols_data
    fees_response,       \* what the fees endpoint answered to fetch_fees_data
    notices,             \* the st.warning messages shown by the fetches
    tvl_unit,            \* ui.py: value of the "TVL Unit" radio
    session_state,       \* st.session_state: tvl_filter_value, tvl_unit_prev
    selected_categories, \* ui.py: value of the "Categories" multiselect
    selected_chains,     \* ui.py: value of the "Chains" multiselect
    min_tvl,             \* app.py: threshold returned by render_sidebar_filters
    filtered_df,         \* app.py: apply_filters(scored_df, categories, chains, min_tvl)
    pc                   \* position of main()

fetch_vars == <<protocols_response, fees_response, notices>>

ui_vars == <<tvl_unit, session_state, selected_categories, selected_chains, min_tvl, filtered_df>>

vars == <<protocols_df, protocols_columns, fees_df, merged_df, metrics_df, scored_df,
          fetch_vars, ui_vars, pc>>

-----------------------------------------------------------------------------
(* Bounds of the model *)

MaxProtocols == 2
MaxFees == 2
MaxBatch == 3
MaxProtocolItems == 3    \* objects in the protocols payload
MaxFeeItems == 2         \* objects under 'protocols' in the fees payload
MaxSample == 1           \* rows of a synthetic table (the code generates 50)
MaxUiProtocols == 2      \* rows of the protocol table behind the sidebar
MaxSelected == 1         \* entries picked in a multiselect

-----------------------------------------------------------------------------
(* float64 values as extended rationals *)

Abs(x) == IF x < 0 THEN -x ELSE x

RECURSIVE GCD(_, _)
GCD(a, b) == IF b = 0 THEN a ELSE GCD(b, a % b)

NaN == <<0, 0>>
Inf == <<1, 0>>
NegInf == <<-1, 0>>

Sign(x) == IF x > 0 THEN 1 ELSE IF x < 0 THEN -1 ELSE 0

Rat(n, d) ==
    IF d = 0 THEN <<Sign(n), 0>>
    ELSE LET g == GCD(Abs(n), Abs(d))
             s == IF d < 0 THEN -1 ELSE 1
         IN  <<s * (n \div g), s * (d \div g)>>

R(n) == <<n, 1>>

IsNaN(x) == x[1] = 0 /\ x[2] = 0
IsInf(x) == x[1] # 0 /\ x[2] = 0
IsFinite(x) == x[2] > 0

\* x > y, x < y, x >= y, x <= y on floats: any comparison with NaN is False
RLt(x, y) ==
    /\ ~IsNaN(x) /\ ~IsNaN(y)
    /\ IF IsInf(x) THEN x[1] < 0 /\ y # x
       ELSE IF IsInf(y) THEN y[1] > 0
       ELSE x[1] * y[2] < y[1] * x[2]
RGt(x, y) == RLt(y, x)
RLe(x, y) == ~IsNaN(x) /\ ~IsNaN(y) /\ ~RLt(y, x)
RGe(x, y) == RLe(y, x)

RNeg(x) == <<-x[1], x[2]>>

RAdd(x, y) ==
    IF IsNaN(x) \/ IsNaN(y) THEN NaN
    ELSE IF IsInf(x) THEN (IF IsInf(y) /\ y # x THEN NaN ELSE x)
    ELSE IF IsInf(y) THEN y
    ELSE LET g == GCD(x[2], y[2])
         IN  Rat(x[1] * (y[2] \div g) + y[1] * (x[2] \div g), (x[2] \div g) * y[2])

RSub(x, y) == RAdd(x, RNeg(y))

RMul(x, y) ==
    IF IsNaN(x) \/ IsNaN(y) THEN NaN
    ELSE IF IsInf(x) \/ IsInf(y) THEN <<Sign(x[1]) * Sign(y[1]), 0>>
    ELSE LET g1 == GCD(Abs(x[1]), y[2])
             g2 == GCD(Abs(y[1]), x[2])
         IN  Rat((x[1] \div g1) * (y[1] \div g2), (x[2] \div g2) * (y[2] \div g1))

\* IEEE division: x/0 is +-inf for x # 0 and NaN for 0/0; no exception is raised
RDiv(x, y) ==
    IF IsNaN(x) \/ IsNaN(y) THEN NaN
    ELSE IF IsInf(y) THEN (IF IsInf(x) THEN NaN ELSE R(0))
    ELSE IF y[1] = 0 THEN <<Sign(x[1]), 0>>
    ELSE RMul(x, Rat(y[2], y[1]))

\* Series.clip(lower, upper): NaN stays NaN
RClip(x, lo, hi) ==
    IF IsNaN(x) THEN NaN
    ELSE IF RLt(x, lo) THEN lo
    ELSE IF RGt(x, hi) THEN hi
    ELSE x

\* Series.fillna(v)
FillNa(x, v) == IF IsNaN(x) THEN v ELSE x

\* floor of a finite rational
Floor(x) == x[1] \div x[2]

\* Series.round(1): rint(x * 10) / 10 with rint rounding half to even
Round1(x) ==
    IF ~IsFinite(x) THEN x
    ELSE LET t  == RMul(x, R(10))
             f  == Floor(t)
             r2 == 2 * (t[1] - f * t[2])      \* twice the remainder
             k  == IF r2 < t[2] THEN f
                   ELSE IF r2 > t[2] THEN f + 1
                   ELSE IF f % 2 = 0 THEN f ELSE f + 1
         IN  Rat(k, 10)

-----------------------------------------------------------------------------
(* float64 values of the TVL threshold, src/utils/ui.py *)
(* A positive float64 is [m, e]: m the 53 bits of its significand, first  *)
(* bit 1, most significant first, and e the exponent of its last bit, so   *)
(* the value is m * 2^e. Zero is FZero. Results are rounded to nearest,    *)
(* ties to even, as IEEE 754 does; subnormals and overflow do not occur    *)
(* for the magnitudes of a TVL threshold.                                  *)

SignificandBits == 53

\* long integers are sequences of limbs below 2^LimbBits, most significant first
LimbBits == 20

\* zero bits appended to a dividend so that the quotient by a divisor below
\* 2^10 has more than SignificandBits + 2 bits
DivisionExtraBits == 27

FZero == [m |-> <<>>, e |-> 0]

Zeros(k) == [i \in 1..k |-> 0]

\* bits without its leading zeros
StripZeros(bits) ==
    IF \A i \in 1..Len(bits) : bits[i] = 0 THEN <<>>
    ELSE SubSeq(bits,
                CHOOSE i \in 1..Len(bits) : bits[i] = 1 /\ \A j \in 1..(i - 1) : bits[j] = 0,
                Len(bits))

\* the binary digits of 0 <= n < 2^31, most significant first; <<>> for 0
BitsOfNat(n) == StripZeros([i \in 1..31 |-> (n \div 2 ^ (31 - i)) % 2])

\* bits + 1; one bit longer when all bits are 1
Increment(bits) ==
    IF \A i \in 1..Len(bits) : bits[i] = 1 THEN <<1>> \o Zeros(Len(bits))
    ELSE LET k == CHOOSE i \in 1..Len(bits) :
                      bits[i] = 0 /\ \A j \in (i + 1)..Len(bits) : bits[j] = 1
         IN  [i \in 1..Len(bits) |-> IF i < k THEN bits[i] ELSE IF i = k THEN 1 ELSE 0]

\* the float64 nearest to bits * 2^e (plus, when sticky, a nonzero amount
\* below the last bit), ties to even; bits has no leading zero
RoundToDouble(bits, e, sticky) ==
    IF bits = <<>> THEN FZero
    ELSE IF Len(bits) <= SignificandBits
    THEN [m |-> bits \o Zeros(SignificandBits - Len(bits)),
          e |-> e - (SignificandBits - Len(bits))]
    ELSE LET kept == SubSeq(bits, 1, SignificandBits)
             rest == sticky \/ \E i \in (SignificandBits + 2)..Len(bits) : bits[i] = 1
             up == bits[SignificandBits + 1] = 1 /\ (rest \/ kept[SignificandBits] = 1)
             r == IF up THEN Increment(kept) ELSE kept
             e1 == e + Len(bits) - SignificandBits
         IN  IF Len(r) > SignificandBits
             THEN [m |-> SubSeq(r, 1, SignificandBits), e |-> e1 + 1]
             ELSE [m |-> r, e |-> e1]

\* float(n) for an integer 0 <= n < 2^31
FromNat(n) == RoundToDouble(BitsOfNat(n), 0, FALSE)

\* the number whose binary digits are bits[lo..hi], added to acc * 2^(hi - lo + 1)
RECURSIVE LimbOf(_, _, _, _)
LimbOf(bits, lo, hi, acc) ==
    IF lo > hi THEN acc ELSE LimbOf(bits, lo + 1, hi, 2 * acc + bits[lo])

\* bits as limbs
ToLimbs(bits) ==
    LET n == (Len(bits) + LimbBits - 1) \div LimbBits
        padded == Zeros(n * LimbBits - Len(bits)) \o bits
    IN  [j \in 1..n |-> LimbOf(padded, LimbBits * (j - 1) + 1, LimbBits * j, 0)]

\* limbs as bits
FromLimbs(limbs) ==
    [i \in 1..(LimbBits * Len(limbs)) |->
        (limbs[(i - 1) \div LimbBits + 1] \div 2 ^ (LimbBits - 1 - ((i - 1) % LimbBits))) % 2]

\* limbs * c for 0 < c < 2^10, from the last limb to the first
RECURSIVE MulLimbs(_, _, _, _, _)
MulLimbs(limbs, i, c, carry, out) ==
    IF i = 0 THEN <<carry>> \o out
    ELSE MulLimbs(limbs, i - 1, c, (limbs[i] * c + carry) \div 2 ^ LimbBits,
                  <<(limbs[i] * c + carry) % 2 ^ LimbBits>> \o out)

\* limbs * 1000^k
RECURSIVE TimesThousands(_, _)
TimesThousands(limbs, k) ==
    IF k = 0 THEN limbs
    ELSE TimesThousands(MulLimbs(limbs, Len(limbs), 1000, 0, <<>>), k - 1)

\* x * 1000.0^k for a float64 x: the product with the float64 values 1000.0,
\* 1e6 and 1e9, which are exactly 1000, 1000^2 and 1000^3
FMul(x, k) ==
    IF x = FZero THEN FZero
    ELSE RoundToDouble(StripZeros(FromLimbs(TimesThousands(ToLimbs(x.m), k))), x.e, FALSE)

\* long division of limbs by 0 < c < 2^10: quotient limbs q and remainder r
RECURSIVE DivLimbs(_, _, _, _, _)
DivLimbs(limbs, i, c, r, q) ==
    IF i > Len(limbs) THEN [q |-> q, r |-> r]
    ELSE DivLimbs(limbs, i + 1, c, (r * 2 ^ LimbBits + limbs[i]) % c,
                  Append(q, (r * 2 ^ LimbBits + limbs[i]) \div c))

\* quotient and remainder of m * 2^DivisionExtraBits by c
Quotient(m, c) == DivLimbs(ToLimbs(m \o Zeros(DivisionExtraBits)), 1, c, 0, <<>>)

\* x / c for a float64 x and the float64 value of an integer 0 < c < 2^10
FDiv(x, c) ==
    IF x = FZero THEN FZero
    ELSE RoundToDouble(StripZeros(FromLimbs(Quotient(x.m, c).q)), x.e - DivisionExtraBits,
                       Quotient(x.m, c).r # 0)

\* a >= b for float64 values a, b >= 0
FGe(a, b) ==
    IF b = FZero THEN TRUE
    ELSE IF a = FZero THEN FALSE
    ELSE IF a.e # b.e THEN a.e > b.e
    ELSE \A i \in 1..SignificandBits :
            a.m[i] < b.m[i] => \E j \in 1..(i - 1) : a.m[j] > b.m[j]

\* the float64 of a table cell n/d >= 0 with n < 2^31, d < 2^10
ToFloat(x) == IF x[1] = 0 THEN FZero ELSE FDiv(FromNat(x[1]), x[2])

-----------------------------------------------------------------------------
(* Strings *)

NA == << "<NA>" >>

NotNa(s) == s # NA

\* str.lower() on the characters the tables use
LowerChar(c) ==
    CASE c = "A" -> "a"
      [] c = "B" -> "b"
      [] c = "C" -> "c"
      [] c = "D" -> "d"
      [] c = "O" -> "o"
      [] c = "P" -> "p"
      [] c = "R" -> "r"
      [] c = "T" -> "t"
      [] c = "X" -> "x"
      [] c = "Y" -> "y"
      [] OTHER -> c

Lower(s) == [i \in 1..Len(s) |-> LowerChar(s[i])]

RECURSIVE LStrip(_)
LStrip(s) == IF s # <<>> /\ Head(s) = " " THEN LStrip(Tail(s)) ELSE s

RECURSIVE RStrip(_)
RStrip(s) == IF s # <<>> /\ s[Len(s)] = " " THEN RStrip(SubSeq(s, 1, Len(s) - 1)) ELSE s

Strip(s) == RStrip(LStrip(s))

\* Series.str.lower().str.strip(): a missing value stays missing
StrLowerStrip(s) == IF NotNa(s) THEN Strip(Lower(s)) ELSE NA

-----------------------------------------------------------------------------
(* DataFrame helpers (pandas operations used by merge_datasets) *)

\* df[col] = values
AddColumn(df, col, values) == [i \in 1..Len(df) |-> (col :> values[i]) @@ df[i]]

\* df[cols]
Project(df, cols) == [i \in 1..Len(df) |-> [c \in cols |-> df[i][c]]]

\* df.drop(columns=cols)
DropColumns(df, cols) == [i \in 1..Len(df) |-> [c \in (DOMAIN df[i]) \ cols |-> df[i][c]]]

\* slip: the stage works on the caller's table itself, so what it writes
\* (written) is what the caller's table holds after the call
NoCopy(original, written) == written

\* df.copy(): the stage writes to a copy, the caller's table keeps its rows
Copy(original, written) == original

\* the rows of df at the increasing positions of the set idx
RECURSIVE RowsAt(_, _, _)
RowsAt(df, idx, i) ==
    IF i > Len(df) THEN <<>>
    ELSE (IF i \in idx THEN <<df[i]>> ELSE <<>>) \o RowsAt(df, idx, i + 1)

\* slip: keep='last'
DropDuplicatesKeepLast(df, col) ==
    RowsAt(df, {i \in 1..Len(df) : \A j \in (i + 1)..Len(df) : df[j][col] # df[i][col]}, 1)

\* df.drop_duplicates(subset=col, keep='first'); missing keys count as equal
DropDuplicatesKeepFirst(df, col) ==
    RowsAt(df, {i \in 1..Len(df) : \A j \in 1..(i - 1) : df[j][col] # df[i][col]}, 1)

\* left.merge(right, on=key, how='left'): left order is kept, every matching
\* right row yields one output row, a left row without match gets NaN
RECURSIVE MergeLeft(_, _, _, _)
MergeLeft(left, right, key, i) ==
    IF i > Len(left) THEN <<>>
    ELSE LET l == left[i]
             hits == {j \in 1..Len(right) : right[j][key] = l[key]}
             matched == RowsAt(right, hits, 1)
             none == [c \in {"total24h", "total7d", "total30d"} |-> NaN]
             out == IF hits = {} THEN <<none @@ l>>
                    ELSE [k \in 1..Len(matched) |->
                            [c \in (DOMAIN matched[k]) \ {key} |-> matched[k][c]] @@ l]
         IN  out \o MergeLeft(left, right, key, i + 1)

-----------------------------------------------------------------------------
(* merge_datasets, src/utils/data.py *)

NameLower(row) == StrLowerStrip(row.name)
SymbolLower(row) == StrLowerStrip(row.symbol)

\* slip: the revenue table is joined without deduplication
FeesKeepAll(fees) == fees

\* fees.drop_duplicates(subset='name_lower', keep='first')
FeesDedup(fees) == DropDuplicatesKeepFirst(fees, "name_lower")

\* fees.drop_duplicates(subset='symbol_lower', keep='first')
FeesSymbolDedup(fees) == DropDuplicatesKeepFirst(fees, "symbol_lower")

\* slip: every row is sent through the symbol fallback
UnmatchedMaskAll(merged) == 1..Len(merged)

\* merged['total24h'].isna()
UnmatchedMask(merged) == {i \in 1..Len(merged) : IsNaN(merged[i].total24h)}

\* slip: an empty normalized symbol is treated as no symbol
SymbolMatchNonEmpty(fees_symbol_dedup, symbol_lower) ==
    RowsAt(fees_symbol_dedup,
           {j \in 1..Len(fees_symbol_dedup) :
               /\ NotNa(fees_symbol_dedup[j].symbol_lower)
               /\ symbol_lower # <<>>
               /\ fees_symbol_dedup[j].symbol_lower = symbol_lower}, 1)

\* fees_symbol_dedup[fees_symbol_dedup['symbol_lower'] == symbol_lower]
SymbolMatch(fees_symbol_dedup, symbol_lower) ==
    RowsAt(fees_symbol_dedup,
           {j \in 1..Len(fees_symbol_dedup) :
               /\ NotNa(fees_symbol_dedup[j].symbol_lower)
               /\ fees_symbol_dedup[j].symbol_lower = symbol_lower}, 1)

\* body of the loop over unmatched_indices for one idx
SymbolFallbackRow(row, fees_symbol_dedup) ==
    IF NotNa(row.symbol)
    THEN LET symbol_lower == Strip(Lower(row.symbol))
             match == SymbolMatch(fees_symbol_dedup, symbol_lower)
         IN  IF match # <<>>
             THEN [row EXCEPT !.total24h = match[1].total24h,
                              !.total7d  = match[1].total7d,
                              !.total30d = match[1].total30d]
             ELSE row
    ELSE row

\* fees['symbol_lower'] = fees['symbol'].str.lower().str.strip()
WithSymbolLower(fees) ==
    AddColumn(fees, "symbol_lower", [i \in DOMAIN fees |-> SymbolLower(fees[i])])

\* df['name_lower'] = df['name'].str.lower().str.strip()
WithNameLower(df) == AddColumn(df, "name_lower", [i \in DOMAIN df |-> NameLower(df[i])])

\* the loop over unmatched_indices
SymbolFallbackLoop(merged, unmatched_mask, fees_symbol_dedup) ==
    [idx \in 1..Len(merged) |->
        IF idx \in unmatched_mask
        THEN SymbolFallbackRow(merged[idx], fees_symbol_dedup)
        ELSE merged[idx]]

\* the block under "For still unmatched rows, try symbol matching"
SymbolFallback(merged, fees, columns) ==
    IF UnmatchedMask(merged) # {} /\ "symbol" \in columns
    THEN SymbolFallbackLoop(merged, UnmatchedMask(merged), FeesSymbolDedup(WithSymbolLower(fees)))
    ELSE merged

\* merged[col] = merged[col].fillna(0) for the three revenue columns
FillRevenue(merged) ==
    [i \in 1..Len(merged) |->
        [merged[i] EXCEPT !.total24h = FillNa(@, R(0)),
                          !.total7d  = FillNa(@, R(0)),
                          !.total30d = FillNa(@, R(0))]]

\* protocols.merge(fees_dedup[[...]], on='name_lower', how='left')
NameMerge(protocols, fees_dedup) ==
    MergeLeft(protocols,
              Project(fees_dedup, {"name_lower", "total24h", "total7d", "total30d"}),
              "name_lower", 1)

merge_datasets(protocols_in, columns, fees_in) ==
    DropColumns(
        FillRevenue(
            SymbolFallback(NameMerge(WithNameLower(protocols_in), FeesDedup(WithNameLower(fees_in))),
                           WithNameLower(fees_in), columns)),
        {"name_lower", "symbol_lower"})

-----------------------------------------------------------------------------
(* Scoring weights, src/utils/consts.py *)

\* misconfiguration: the weights sum to 1.1
VALUATION_GAP_WEIGHT_HALF == Rat(50, 100)

VALUATION_GAP_WEIGHT == Rat(40, 100)
REVENUE_TREND_WEIGHT == Rat(30, 100)
SIZE_EFFICIENCY_WEIGHT == Rat(30, 100)

-----------------------------------------------------------------------------
(* calculate_financial_metrics, src/utils/metrics.py *)

\* slip: the 24h value is preferred whenever it is positive
AnnualizedRevenueDailyFirst(row) ==
    IF RGt(row.total24h, R(0)) THEN RMul(row.total24h, R(365))
    ELSE RMul(row.total30d, R(12))

\* np.where(total30d > 0, total30d * 12, total24h * 365)
AnnualizedRevenue(row) ==
    IF RGt(row.total30d, R(0)) THEN RMul(row.total30d, R(12))
    ELSE RMul(row.total24h, R(365))

\* slip: the guard lets annualized_revenue = 0 through to the division
PsRatioZeroDivides(row) ==
    IF RGe(row.annualized_revenue, R(0)) THEN RDiv(row.mcap, row.annualized_revenue)
    ELSE Inf

\* np.where(annualized_revenue > 0, mcap / annualized_revenue, np.inf)
PsRatio(row) ==
    IF RGt(row.annualized_revenue, R(0)) THEN RDiv(row.mcap, row.annualized_revenue)
    ELSE Inf

\* ps_ratio.replace([np.inf, -np.inf], np.nan)
PsRatioCalc(row) == IF IsInf(row.ps_ratio) THEN NaN ELSE row.ps_ratio

\* slip: the outlier ceiling is inclusive
ValidPsInclusive(row) ==
    /\ ~IsNaN(row.ps_ratio_calc)
    /\ RGt(row.ps_ratio_calc, R(0))
    /\ RLe(row.ps_ratio_calc, R(1000))

\* the mask selecting valid_ps
ValidPs(row) ==
    /\ ~IsNaN(row.ps_ratio_calc)
    /\ RGt(row.ps_ratio_calc, R(0))
    /\ RLt(row.ps_ratio_calc, R(1000))

\* ascending insertion of x into the sorted sequence s
RECURSIVE Insert(_, _)
Insert(x, s) ==
    IF s = <<>> THEN <<x>>
    ELSE IF RLe(x, Head(s)) THEN <<x>> \o s
    ELSE <<Head(s)>> \o Insert(x, Tail(s))

RECURSIVE Sorted(_)
Sorted(s) == IF s = <<>> THEN <<>> ELSE Insert(Head(s), Sorted(Tail(s)))

\* Series.median() of a non-empty series without missing values
Median(s) ==
    LET o == Sorted(s)
        n == Len(o)
    IN  IF n % 2 = 1 THEN o[(n + 1) \div 2]
        ELSE RDiv(RAdd(o[n \div 2], o[n \div 2 + 1]), R(2))

\* valid_ps['ps_ratio_calc'].median() if len(valid_ps) > 0 else 10.0
SectorMedianPs(df) ==
    LET valid_ps == SelectSeq(df, ValidPs)
    IN  IF Len(valid_ps) > 0
        THEN Median([i \in 1..Len(valid_ps) |-> valid_ps[i].ps_ratio_calc])
        ELSE R(10)

\* slip: no guard on mcap
UpsidePotentialUnguarded(row) ==
    RMul(RDiv(RSub(row.fair_value, row.mcap), row.mcap), R(100))

\* np.where(mcap > 0, ((fair_value - mcap) / mcap) * 100, 0)
UpsidePotential(row) ==
    IF RGt(row.mcap, R(0))
    THEN RMul(RDiv(RSub(row.fair_value, row.mcap), row.mcap), R(100))
    ELSE R(0)

\* df['annualized_revenue'] = ...
WithAnnualizedRevenue(df) ==
    AddColumn(df, "annualized_revenue", [i \in DOMAIN df |-> AnnualizedRevenue(df[i])])

\* df['ps_ratio'] = ...
WithPsRatio(df) == AddColumn(df, "ps_ratio", [i \in DOMAIN df |-> PsRatio(df[i])])

\* df['ps_ratio_calc'] = ...
WithPsRatioCalc(df) == AddColumn(df, "ps_ratio_calc", [i \in DOMAIN df |-> PsRatioCalc(df[i])])

\* df['sector_median_ps'] = sector_median_ps
WithSectorMedianPs(df, sector_median_ps) ==
    AddColumn(df, "sector_median_ps", [i \in DOMAIN df |-> sector_median_ps])

\* df['fair_value'] = df['annualized_revenue'] * sector_median_ps
WithFairValue(df, sector_median_ps) ==
    AddColumn(df, "fair_value",
              [i \in DOMAIN df |-> RMul(df[i].annualized_revenue, sector_median_ps)])

\* df['upside_potential'] = ...
WithUpsidePotential(df) ==
    AddColumn(df, "upside_potential", [i \in DOMAIN df |-> UpsidePotential(df[i])])

\* the statements after sector_median_ps is known
BroadcastAndValue(df, sector_median_ps) ==
    WithUpsidePotential(WithFairValue(WithSectorMedianPs(df, sector_median_ps), sector_median_ps))

\* the statements up to ps_ratio_calc
WithRatios(df) == WithPsRatioCalc(WithPsRatio(WithAnnualizedRevenue(df)))

calculate_financial_metrics(df_in) ==
    BroadcastAndValue(WithRatios(df_in), SectorMedianPs(WithRatios(df_in)))

-----------------------------------------------------------------------------
(* calculate_venture_score, src/utils/metrics.py *)

\* slip: the upside is not clipped
ValuationScoreUnclipped(row) ==
    RMul(RDiv(RAdd(row.upside_potential, R(100)), R(300)),
         RMul(VALUATION_GAP_WEIGHT, R(100)))

\* ((upside_potential.clip(-100, 200) + 100) / 300) * (VALUATION_GAP_WEIGHT * 100)
ValuationScore(row) ==
    RMul(RDiv(RAdd(RClip(row.upside_potential, R(-100), R(200)), R(100)), R(300)),
         RMul(VALUATION_GAP_WEIGHT, R(100)))

\* total7d / 7
DailyAvg7d(row) == RDiv(row.total7d, R(7))

\* np.where(daily_avg_7d > 0, ((total24h - daily_avg_7d) / daily_avg_7d) * 100, 0)
RevenueTrend(row) ==
    IF RGt(row.daily_avg_7d, R(0))
    THEN RMul(RDiv(RSub(row.total24h, row.daily_avg_7d), row.daily_avg_7d), R(100))
    ELSE R(0)

\* slip: the status looks at the 24h value
RevenueTrendStatusDaily(row) ==
    IF RGt(row.total24h, R(0)) THEN "Calculated" ELSE "Insufficient Data"

\* np.where(total7d > 0, 'Calculated', 'Insufficient Data')
RevenueTrendStatus(row) ==
    IF RGt(row.total7d, R(0)) THEN "Calculated" ELSE "Insufficient Data"

\* slip: the clamped trend is scaled without the shift by 50
TrendScoreUnshifted(row) ==
    RMul(RDiv(RClip(row.revenue_trend, R(-50), R(50)), R(100)),
         RMul(REVENUE_TREND_WEIGHT, R(100)))

\* ((revenue_trend.clip(-50, 50) + 50) / 100) * (REVENUE_TREND_WEIGHT * 100)
TrendScore(row) ==
    RMul(RDiv(RAdd(RClip(row.revenue_trend, R(-50), R(50)), R(50)), R(100)),
         RMul(REVENUE_TREND_WEIGHT, R(100)))

\* np.where(mcap > 0, tvl / mcap, 0)
TvlMcapRatio(row) ==
    IF RGt(row.mcap, R(0)) THEN RDiv(row.tvl, row.mcap) ELSE R(0)

\* (tvl_mcap_ratio.clip(0, 10) / 10) * (SIZE_EFFICIENCY_WEIGHT * 100)
EfficiencyScore(row) ==
    RMul(RDiv(RClip(row.tvl_mcap_ratio, R(0), R(10)), R(10)),
         RMul(SIZE_EFFICIENCY_WEIGHT, R(100)))

\* (valuation_score + trend_score + efficiency_score).round(1)
RoundedSum(row) ==
    Round1(RAdd(RAdd(row.valuation_score, row.trend_score), row.efficiency_score))

\* venture_score.clip(0, 100)
VentureScore(row) == RClip(RoundedSum(row), R(0), R(100))

\* df['valuation_score'] = ...
WithValuationScore(df) ==
    AddColumn(df, "valuation_score", [i \in DOMAIN df |-> ValuationScore(df[i])])

\* df['daily_avg_7d'] = ...
WithDailyAvg7d(df) == AddColumn(df, "daily_avg_7d", [i \in DOMAIN df |-> DailyAvg7d(df[i])])

\* df['revenue_trend'] = ...
WithRevenueTrend(df) ==
    AddColumn(df, "revenue_trend", [i \in DOMAIN df |-> RevenueTrend(df[i])])

\* df['revenue_trend_status'] = ...
WithRevenueTrendStatus(df) ==
    AddColumn(df, "revenue_trend_status", [i \in DOMAIN df |-> RevenueTrendStatus(df[i])])

\* df['trend_score'] = ...
WithTrendScore(df) == AddColumn(df, "trend_score", [i \in DOMAIN df |-> TrendScore(df[i])])

\* df['tvl_mcap_ratio'] = ...
WithTvlMcapRatio(df) ==
    AddColumn(df, "tvl_mcap_ratio", [i \in DOMAIN df |-> TvlMcapRatio(df[i])])

\* df['efficiency_score'] = ...
WithEfficiencyScore(df) ==
    AddColumn(df, "efficiency_score", [i \in DOMAIN df |-> EfficiencyScore(df[i])])

\* df['venture_score'] = ..., rounded and then clipped
WithVentureScore(df) ==
    AddColumn(df, "venture_score", [i \in DOMAIN df |-> VentureScore(df[i])])

calculate_venture_score(df_in) ==
    WithVentureScore(WithEfficiencyScore(WithTvlMcapRatio(WithTrendScore(
        WithRevenueTrendStatus(WithRevenueTrend(WithDailyAvg7d(WithValuationScore(df_in))))))))

-----------------------------------------------------------------------------
(* render_sidebar_filters and apply_filters, src/utils/ui.py *)

MILLIONS == "Millions ($M)"
BILLIONS == "Billions ($B)"

\* "Billions" in tvl_unit
InBillions(unit) == unit = BILLIONS

\* multiplier as a power of 1000: 1e9 = 1000^3, 1e6 = 1000^2
Multiplier(unit) == IF InBillions(unit) THEN 3 ELSE 2

\* default_val: 1.0 or 10.0
DefaultVal(unit) == IF InBillions(unit) THEN FromNat(1) ELSE FromNat(10)

\* if 'tvl_filter_value' not in st.session_state: ...
InitSessionState(ss, unit) ==
    IF "tvl_filter_value" \notin DOMAIN ss
    THEN [tvl_filter_value |-> DefaultVal(unit), tvl_unit_prev |-> unit]
    ELSE ss

\* the block under "Handle Unit Switch Conversion"
UnitSwitch(ss, unit) ==
    IF "tvl_unit_prev" \in DOMAIN ss /\ ss.tvl_unit_prev # unit
    THEN [tvl_filter_value |-> IF InBillions(unit)
                               THEN FDiv(ss.tvl_filter_value, 1000)
                               ELSE FMul(ss.tvl_filter_value, 1),
          tvl_unit_prev |-> unit]
    ELSE ss

\* st.session_state after render_sidebar_filters has run with the radio at unit
SessionStateAfterRender(ss, unit) == UnitSwitch(InitSessionState(ss, unit), unit)

\* min_tvl = st.session_state.tvl_filter_value * multiplier
MinTvl(ss, unit) == FMul(ss.tvl_filter_value, Multiplier(unit))

\* df['tvl'].max(), NaN for an empty table
MaxTvl(df) ==
    IF df = <<>> THEN NaN
    ELSE df[CHOOSE i \in 1..Len(df) : \A j \in 1..Len(df) : RGe(df[i].tvl, df[j].tvl)].tvl

\* max_value of the slider and the number input:
\* max_value_scaled if max_value_scaled > 0 else 1000.0
MaxValue(df, unit) ==
    IF RGt(MaxTvl(df), R(0))
    THEN RDiv(MaxTvl(df), IF InBillions(unit) THEN R(1000000000) ELSE R(1000000))
    ELSE R(1000)

\* sorted(df[column].dropna().unique().tolist()): the options of a multiselect
Options(df, column) == {df[i][column] : i \in 1..Len(df)} \ {"<NA>"}

\* the rows of df that pass the category, chain and TVL filters
apply_filters(df, categories, chains, threshold) ==
    RowsAt(df,
           {i \in 1..Len(df) :
               /\ categories # {} => df[i].category \in categories
               /\ chains # {} => df[i].primary_chain \in chains
               /\ FGe(ToFloat(df[i].tvl), threshold)}, 1)

-----------------------------------------------------------------------------
(* Upstream responses, src/utils/data.py *)

\* no request made yet
NoResponse == [kind |-> "none", data |-> <<>>]

\* a response whose body parsed as JSON into data
Json(data) == [kind |-> "json", data |-> data]

\* a request that raised before any data was there: requests.get (timeout),
\* raise_for_status (http_error), response.json (invalid_json)
Failure(kind) == [kind |-> kind, data |-> <<>>]

\* outcome of a function body: a returned table with the warnings it showed,
\* or an exception
Returned(df, warnings) == [raised |-> FALSE, df |-> df, warnings |-> warnings, error |-> ""]
Raised(error) == [raised |-> TRUE, df |-> <<>>, warnings |-> <<>>, error |-> error]

\* slip: no except clause, the exception of the body leaves the function
TryOnly(body, handler) == body

\* try: body / except Exception: handler
TryExcept(body, handler) == IF body.raised THEN handler ELSE body

\* item[key] of a JSON object, missing when the key is absent
Cell(item, key, missing) == IF key \in DOMAIN item THEN item[key] ELSE missing

\* lambda x: x[0] if isinstance(x, list) and len(x) > 0 else 'Unknown'
PrimaryChain(chains) == IF chains # NA /\ chains # <<>> THEN chains[1] ELSE "Unknown"

\* columns of pd.DataFrame(data) for a list of JSON objects
DataFrameColumns(data) == UNION {DOMAIN data[i] : i \in 1..Len(data)}

cols == {"name", "symbol", "tvl", "mcap", "category", "chains"}

\* df[c] = None for the columns of cols that df lacks, then df[cols]: every
\* row gets every column of cols, a missing cell is None/NaN
FillMissingColumns(item) ==
    [name     |-> Cell(item, "name", NA),
     symbol   |-> Cell(item, "symbol", NA),
     tvl      |-> Cell(item, "tvl", NaN),
     mcap     |-> Cell(item, "mcap", NaN),
     category |-> Cell(item, "category", "<NA>"),
     chains   |-> Cell(item, "chains", NA)]

\* to_numeric(...).fillna(0) on tvl and mcap, then the primary_chain column
CleanProtocol(row) ==
    [name |-> row.name, symbol |-> row.symbol,
     tvl |-> FillNa(row.tvl, R(0)), mcap |-> FillNa(row.mcap, R(0)),
     category |-> row.category, chains |-> row.chains,
     primary_chain |-> PrimaryChain(row.chains)]

\* the try block of fetch_protocols_data
FetchProtocolsBody(response) ==
    IF response.kind = "json"
    THEN Returned([i \in 1..Len(response.data) |->
                      CleanProtocol(FillMissingColumns(response.data[i]))], <<>>)
    ELSE Raised(response.kind)

\* st.warning(f"Failed to fetch protocol data: {e} - we are using ramdom generated data")
ProtocolsWarning(error) == <<"Failed to fetch protocol data", error>>

fetch_protocols_data(response, sample) ==
    TryExcept(FetchProtocolsBody(response),
              Returned(sample, <<ProtocolsWarning(FetchProtocolsBody(response).error)>>))

\* one entry of rows in fetch_fees_data, the three totals after to_numeric().fillna(0)
FeeRecord(item) ==
    [name     |-> Cell(item, "name", <<>>),
     symbol   |-> Cell(item, "symbol", <<>>),
     total24h |-> FillNa(Cell(item, "total24h", R(0)), R(0)),
     total7d  |-> FillNa(Cell(item, "total7d", R(0)), R(0)),
     total30d |-> FillNa(Cell(item, "total30d", R(0)), R(0))]

\* the try block of fetch_fees_data; data is the list under 'protocols'. An
\* empty list gives a DataFrame without columns, and df['total24h'] raises
FetchFeesBody(response) ==
    IF response.kind = "json"
    THEN IF response.data = <<>>
         THEN Raised("KeyError")
         ELSE Returned([i \in 1..Len(response.data) |-> FeeRecord(response.data[i])], <<>>)
    ELSE Raised(response.kind)

\* the except branch shows nothing: its st.warning is commented out
fetch_fees_data(response, sample) ==
    TryExcept(FetchFeesBody(response), Returned(sample, <<>>))

\* f"{i}" for the row numbers of the sample tables
Digit(i) == <<"1", "2", "3", "4", "5", "6", "7", "8", "9">>[i]

\* f"Protocol {i}"
SampleName(i) == <<"P", "r", "o", "t", "o", "c", "o", "l", " ", Digit(i)>>

\* f"PROTO{i}"
SampleSymbol(i) == <<"P", "R", "O", "T", "O", Digit(i)>>

\* get_sample_protocols_data; draws[i] = <<cat, chain, tvl, factor>> are the
\* results of random.choice and random.uniform for row i
get_sample_protocols_data(draws) ==
    [i \in 1..Len(draws) |->
        [name |-> SampleName(i), symbol |-> SampleSymbol(i),
         tvl |-> draws[i][3], mcap |-> RMul(draws[i][3], draws[i][4]),
         category |-> draws[i][1], chains |-> <<draws[i][2]>>,
         primary_chain |-> draws[i][2]]]

\* get_sample_fees_data; draws[i] = <<daily_rev, u7, u30>>
get_sample_fees_data(draws) ==
    [i \in 1..Len(draws) |->
        [name |-> SampleName(i), symbol |-> SampleSymbol(i),
         total24h |-> draws[i][1],
         total7d  |-> RMul(RMul(draws[i][1], R(7)), draws[i][2]),
         total30d |-> RMul(RMul(draws[i][1], R(30)), draws[i][3])]]

-----------------------------------------------------------------------------
(* Input tables *)

\* protocol and revenue rows with noisy identifiers: "A " and " a" share the
\* normalized name "a", " X" and "x " share the normalized symbol "x"
ProtocolNames == {<<"A", " ">>, <<"B">>}
ProtocolSymbols == {<<" ", "X">>, <<>>, NA}
FeeNames == {<<" ", "a">>, <<"C">>}
FeeSymbols == {<<"x", " ">>, <<>>}

\* (total24h, total7d, total30d)
RevenueValues == {<<0, 0, 0>>, <<10, 0, 0>>, <<4, 28, 100>>, <<9, 28, 100>>, <<1, 28, 1>>}
\* (tvl, mcap)
MarketValues == {<<0, 0>>, <<500, 1000>>, <<20000, 1000>>, <<500, 12000>>}

ProtocolRow(name, symbol, market) ==
    [name |-> name, symbol |-> symbol, tvl |-> R(market[1]), mcap |-> R(market[2])]

FeeRow(name, symbol, revenue) ==
    [name |-> name, symbol |-> symbol,
     total24h |-> R(revenue[1]), total7d |-> R(revenue[2]), total30d |-> R(revenue[3])]

\* all sequences over S of length 0..n
SeqUpTo(S, n) == UNION {[1..k -> S] : k \in 0..n}

ProtocolRows ==
    {ProtocolRow(n, s, <<500, 1000>>) : n \in ProtocolNames, s \in ProtocolSymbols}

FeeRows ==
    {FeeRow(n, s, v) : n \in FeeNames, s \in FeeSymbols, v \in {<<0, 0, 0>>, <<4, 28, 100>>}}

PROTOCOL_COLUMNS == {"name", "symbol", "tvl", "mcap"}

\* name and symbol of the i-th row of a batch: "a", "aa", "aaa", ...
BatchName(i) == [j \in 1..i |-> "a"]

TypeOK ==
    /\ pc \in {"fetch_protocols", "fetch_fees", "crashed",
               "load", "merged", "metrics", "scored", "filters", "filtered"}
    /\ protocols_columns \subseteq PROTOCOL_COLUMNS \cup {"category", "chains", "primary_chain"}

\* no request has been answered and no notice shown
NothingFetched ==
    /\ protocols_response = NoResponse
    /\ fees_response = NoResponse
    /\ notices = <<>>

\* a new browser session: empty st.session_state, widgets at their defaults,
\* nothing returned by render_sidebar_filters or apply_filters yet
NothingRendered ==
    /\ tvl_unit = "Millions ($M)"
    /\ session_state = <<>>
    /\ selected_categories = {}
    /\ selected_chains = {}
    /\ min_tvl = FZero
    /\ filtered_df = <<>>

\* tables with noisy, duplicated and missing identifiers
Init ==
    /\ protocols_df \in SeqUpTo(ProtocolRows, MaxProtocols)
    /\ protocols_columns \in {PROTOCOL_COLUMNS, PROTOCOL_COLUMNS \ {"symbol"}}
    /\ "symbol" \notin protocols_columns =>
          \A i \in 1..Len(protocols_df) : protocols_df[i].symbol = NA
    /\ fees_df \in SeqUpTo(FeeRows, MaxFees)
    /\ merged_df = <<>>
    /\ metrics_df = <<>>
    /\ scored_df = <<>>
    /\ NothingFetched
    /\ NothingRendered
    /\ pc = "load"

\* JSON objects of the protocols endpoint: whitespace symbol, empty symbol and
\* empty chain list, and an object without symbol, category and chains whose
\* tvl is null
ProtocolItems ==
    {[name |-> <<"A", " ">>, symbol |-> <<" ">>, tvl |-> R(500), mcap |-> R(1000),
      category |-> "Dexes", chains |-> <<"Ethereum", "Arbitrum">>],
     [name |-> <<"B">>, symbol |-> <<>>, tvl |-> R(500), mcap |-> R(1000),
      category |-> "Lending", chains |-> <<>>],
     [name |-> <<"D">>, tvl |-> NaN, mcap |-> R(1000)]}

\* JSON objects of the fees endpoint: one without symbol, one without the
\* 7-day and 30-day totals, one with an empty symbol
FeeItems ==
    {[name |-> <<"C">>, total24h |-> R(4), total7d |-> R(28), total30d |-> R(100)],
     [name |-> <<" ", "a">>, symbol |-> <<"x", " ">>, total24h |-> R(10)],
     [name |-> <<"C">>, symbol |-> <<>>, total24h |-> R(9), total7d |-> R(28),
      total30d |-> R(100)]}

\* what makes the try block of fetch_protocols_data raise: requests.get,
\* raise_for_status, response.json, pd.DataFrame on a payload that is no list
\* of objects
ProtocolFailures == {"timeout", "http_error", "invalid_json", "not_records"}

\* the same for fetch_fees_data, and a payload without 'protocols' or whose
\* entries have no .get
FeeFailures == {"timeout", "http_error", "invalid_json", "no_protocols_key", "not_records"}

ProtocolResponses ==
    {Failure(k) : k \in ProtocolFailures}
        \cup {Json(d) : d \in SeqUpTo(ProtocolItems, MaxProtocolItems)}

FeeResponses ==
    {Failure(k) : k \in FeeFailures} \cup {Json(d) : d \in SeqUpTo(FeeItems, MaxFeeItems)}

\* <<cat, chain, tvl, factor>>: random.choice(categories), random.choice(chains),
\* random.uniform(1e6, 10e9), random.uniform(0.1, 2.0)
SampleProtocolDraws ==
    {"Lending", "Dexes"} \X {"Ethereum"} \X {R(1000000), R(2000000)} \X {Rat(1, 10), R(2)}

\* <<daily_rev, u7, u30>>: random.uniform(1000, 1000000), random.uniform(0.8, 1.2) twice
SampleFeeDraws == {R(1000), R(1000000)} \X {Rat(4, 5), Rat(6, 5)} \X {R(1)}

\* main() before the fetches
InitFetch ==
    /\ protocols_df = <<>>
    /\ protocols_columns = {}
    /\ fees_df = <<>>
    /\ merged_df = <<>>
    /\ metrics_df = <<>>
    /\ scored_df = <<>>
    /\ NothingFetched
    /\ NothingRendered
    /\ pc = "fetch_protocols"

\* protocol rows as fetch_protocols_data returns them, with TVLs of 2 billion,
\* 67 million and 10 million dollars
UiProtocolRows ==
    {CleanProtocol([name |-> <<"A", " ">>, symbol |-> <<" ", "X">>, tvl |-> R(2000000000),
                    mcap |-> R(1000), category |-> "Dexes", chains |-> <<"Ethereum">>]),
     CleanProtocol([name |-> <<"B">>, symbol |-> <<>>, tvl |-> R(67000000),
                    mcap |-> R(1000), category |-> "Lending", chains |-> <<>>]),
     CleanProtocol([name |-> <<"D">>, symbol |-> NA, tvl |-> R(10000000),
                    mcap |-> R(0), category |-> "<NA>", chains |-> <<"Ethereum">>])}

\* values the user drags the slider to, in the unit shown
SliderValues == {67, 1001}

\* values the user types into the number input, in the unit shown
InputValues == {2}

\* main() in a new browser session, the two fetches answered
InitUI ==
    /\ protocols_df \in [1..MaxUiProtocols -> UiProtocolRows]
    /\ protocols_columns = cols \cup {"primary_chain"}
    /\ fees_df = <<FeeRow(<<" ", "a">>, <<"x", " ">>, <<4, 28, 100>>)>>
    /\ merged_df = <<>>
    /\ metrics_df = <<>>
    /\ scored_df = <<>>
    /\ protocols_response = Json(<<>>)
    /\ fees_response = Json(<<>>)
    /\ notices = <<>>
    /\ NothingRendered
    /\ pc = "load"

\* a batch of protocols, each with its own revenue row, over the numeric cases
InitBatch ==
    /\ \E batch \in SeqUpTo(MarketValues \X RevenueValues, MaxBatch) :
          /\ protocols_df = [i \in 1..Len(batch) |->
                                ProtocolRow(BatchName(i), BatchName(i), batch[i][1])]
          /\ fees_df = [i \in 1..Len(batch) |->
                                FeeRow(BatchName(i), BatchName(i), batch[i][2])]
    /\ protocols_columns = PROTOCOL_COLUMNS
    /\ merged_df = <<>>
    /\ metrics_df = <<>>
    /\ scored_df = <<>>
    /\ NothingFetched
    /\ NothingRendered
    /\ pc = "load"

-----------------------------------------------------------------------------
(* The data loading block of main(), src/app.py *)

\* protocols_df = fetch_protocols_data()
FetchProtocolsData ==
    /\ pc = "fetch_protocols"
    /\ \E response \in ProtocolResponses, draws \in [1..MaxSample -> SampleProtocolDraws] :
          LET result == fetch_protocols_data(response, get_sample_protocols_data(draws))
          IN  /\ protocols_response' = response
              /\ IF result.raised
                 THEN /\ pc' = "crashed"
                      /\ UNCHANGED <<protocols_df, protocols_columns, notices>>
                 ELSE /\ protocols_df' = result.df
                      /\ protocols_columns' = cols \cup {"primary_chain"}
                      /\ notices' = notices \o result.warnings
                      /\ pc' = "fetch_fees"
    /\ UNCHANGED <<fees_df, merged_df, metrics_df, scored_df, fees_response, ui_vars>>

\* fees_df = fetch_fees_data()
FetchFeesData ==
    /\ pc = "fetch_fees"
    /\ \E response \in FeeResponses, draws \in [1..MaxSample -> SampleFeeDraws] :
          LET result == fetch_fees_data(response, get_sample_fees_data(draws))
          IN  /\ fees_response' = response
              /\ IF result.raised
                 THEN /\ pc' = "crashed"
                      /\ UNCHANGED <<fees_df, notices>>
                 ELSE /\ fees_df' = result.df
                      /\ notices' = notices \o result.warnings
                      /\ pc' = "load"
    /\ UNCHANGED <<protocols_df, protocols_columns, merged_df, metrics_df, scored_df,
                   protocols_response, ui_vars>>

-----------------------------------------------------------------------------
(* The processing block of main(), src/app.py *)

\* merged_df = merge_datasets(protocols_df, fees_df)
MergeDatasets ==
    /\ pc = "load"
    /\ merged_df' = merge_datasets(protocols_df, protocols_columns, fees_df)
    /\ protocols_df' = Copy(protocols_df, WithNameLower(protocols_df))
    /\ fees_df' = Copy(fees_df, WithNameLower(fees_df))
    /\ pc' = "merged"
    /\ UNCHANGED <<protocols_columns, metrics_df, scored_df, fetch_vars, ui_vars>>

\* metrics_df = calculate_financial_metrics(merged_df)
CalculateFinancialMetrics ==
    /\ pc = "merged"
    /\ metrics_df' = calculate_financial_metrics(merged_df)
    /\ merged_df' = Copy(merged_df, calculate_financial_metrics(merged_df))
    /\ pc' = "metrics"
    /\ UNCHANGED <<protocols_df, protocols_columns, fees_df, scored_df, fetch_vars, ui_vars>>

\* scored_df = calculate_venture_score(metrics_df)
CalculateVentureScore ==
    /\ pc = "metrics"
    /\ scored_df' = calculate_venture_score(metrics_df)
    /\ metrics_df' = Copy(metrics_df, calculate_venture_score(metrics_df))
    /\ pc' = "scored"
    /\ UNCHANGED <<protocols_df, protocols_columns, fees_df, merged_df, fetch_vars, ui_vars>>

Next ==
    \/ MergeDatasets
    \/ CalculateFinancialMetrics
    \/ CalculateVentureScore

-----------------------------------------------------------------------------
(* The sidebar of main(), src/app.py, and the user's actions on it *)

\* categories, chains, min_tvl = render_sidebar_filters(scored_df)
RenderSidebarFilters ==
    /\ pc = "scored"
    /\ session_state' = SessionStateAfterRender(session_state, tvl_unit)
    /\ min_tvl' = MinTvl(SessionStateAfterRender(session_state, tvl_unit), tvl_unit)
    /\ pc' = "filters"
    /\ UNCHANGED <<protocols_df, protocols_columns, fees_df, merged_df, metrics_df, scored_df,
                   fetch_vars, tvl_unit, selected_categories, selected_chains, filtered_df>>

\* filtered_df = apply_filters(scored_df, categories, chains, min_tvl)
ApplyFilters ==
    /\ pc = "filters"
    /\ filtered_df' = apply_filters(scored_df, selected_categories, selected_chains, min_tvl)
    /\ pc' = "filtered"
    /\ UNCHANGED <<protocols_df, protocols_columns, fees_df, merged_df, metrics_df, scored_df,
                   fetch_vars, tvl_unit, session_state, selected_categories, selected_chains,
                   min_tvl>>

\* the user picks the other unit in the radio; the script reruns, the fetches
\* being answered by st.cache_data
ChooseTvlUnit ==
    /\ pc = "filtered"
    /\ \E unit \in {MILLIONS, BILLIONS} \ {tvl_unit} : tvl_unit' = unit
    /\ pc' = "load"
    /\ UNCHANGED <<protocols_df, protocols_columns, fees_df, merged_df, metrics_df, scored_df,
                   fetch_vars, session_state, selected_categories, selected_chains, min_tvl,
                   filtered_df>>

\* the user drags the slider; update_from_slider runs, then the script reruns
MoveSlider ==
    /\ pc = "filtered"
    /\ \E tvl_slider \in SliderValues :
          /\ RLe(R(tvl_slider), MaxValue(scored_df, tvl_unit))
          /\ session_state' = [session_state EXCEPT !.tvl_filter_value = FromNat(tvl_slider)]
    /\ pc' = "load"
    /\ UNCHANGED <<protocols_df, protocols_columns, fees_df, merged_df, metrics_df, scored_df,
                   fetch_vars, tvl_unit, selected_categories, selected_chains, min_tvl,
                   filtered_df>>

\* the user types into the number input; update_from_input runs, then the
\* script reruns
TypeInput ==
    /\ pc = "filtered"
    /\ \E tvl_input \in InputValues :
          /\ RLe(R(tvl_input), MaxValue(scored_df, tvl_unit))
          /\ session_state' = [session_state EXCEPT !.tvl_filter_value = FromNat(tvl_input)]
    /\ pc' = "load"
    /\ UNCHANGED <<protocols_df, protocols_columns, fees_df, merged_df, metrics_df, scored_df,
                   fetch_vars, tvl_unit, selected_categories, selected_chains, min_tvl,
                   filtered_df>>

\* the user changes the "Categories" multiselect; the script reruns
SelectCategories ==
    /\ pc = "filtered"
    /\ \E picked \in SUBSET Options(scored_df, "category") :
          /\ Cardinality(picked) <= MaxSelected
          /\ picked # selected_categories
          /\ selected_categories' = picked
    /\ pc' = "load"
    /\ UNCHANGED <<protocols_df, protocols_columns, fees_df, merged_df, metrics_df, scored_df,
                   fetch_vars, tvl_unit, session_state, selected_chains, min_tvl, filtered_df>>

\* the user changes the "Chains" multiselect; the script reruns
SelectChains ==
    /\ pc = "filtered"
    /\ \E picked \in SUBSET Options(scored_df, "primary_chain") :
          /\ Cardinality(picked) <= MaxSelected
          /\ picked # selected_chains
          /\ selected_chains' = picked
    /\ pc' = "load"
    /\ UNCHANGED <<protocols_df, protocols_columns, fees_df, merged_df, metrics_df, scored_df,
                   fetch_vars, tvl_unit, session_state, selected_categories, min_tvl,
                   filtered_df>>

\* main() from the processing block to the filtered table, rerun on every
\* action of the user
NextUI ==
    \/ MergeDatasets
    \/ CalculateFinancialMetrics
    \/ CalculateVentureScore
    \/ RenderSidebarFilters
    \/ ApplyFilters
    \/ ChooseTvlUnit
    \/ MoveSlider
    \/ TypeInput
    \/ SelectCategories
    \/ SelectChains

SpecUI == InitUI /\ [][NextUI]_vars

Spec == Init /\ [][Next]_vars

\* main() from the fetches to the scored table
NextFetch ==
    \/ FetchProtocolsData
    \/ FetchFeesData
    \/ MergeDatasets
    \/ CalculateFinancialMetrics
    \/ CalculateVentureScore

SpecFetch == InitFetch /\ [][NextFetch]_vars

SpecBatch == InitBatch /\ [][Next]_vars

-----------------------------------------------------------------------------
(* Properties of merge_datasets *)

Min(S) == CHOOSE x \in S : \A y \in S : x <= y

Revenue(row) == <<row.total24h, row.total7d, row.total30d>>
ZeroRevenue == <<R(0), R(0), R(0)>>

Merged == pc # "load"

\* revenue rows whose normalized name equals that of the protocol row p
NameHits(p) ==
    {j \in 1..Len(fees_df) : StrLowerStrip(fees_df[j].name) = StrLowerStrip(p.name)}

\* revenue rows whose normalized symbol equals that of the protocol row p
SymbolHits(p) ==
    IF "symbol" \in protocols_columns /\ NotNa(p.symbol)
    THEN {j \in 1..Len(fees_df) :
            NotNa(fees_df[j].symbol)
            /\ StrLowerStrip(fees_df[j].symbol) = StrLowerStrip(p.symbol)}
    ELSE {}

\* C1: merge_datasets returns exactly len(P) rows in the order of P: row i of
\* the output carries the identity and market fields of row i of P, whatever
\* duplicates P and R contain.
RowPreservation ==
    Merged =>
        /\ Len(merged_df) = Len(protocols_df)
        /\ \A i \in 1..Len(merged_df) :
              /\ i <= Len(protocols_df)
              /\ \A c \in {"name", "symbol", "tvl", "mcap"} : merged_df[i][c] = protocols_df[i][c]

\* a merge of a protocol table with a repeated name against a revenue table
\* holding two rows of that normalized name and two rows of one symbol
RowPreservationWitness ==
    /\ pc = "merged"
    /\ Len(protocols_df) = 2 /\ Len(fees_df) = 2 /\ Len(merged_df) = 2
    /\ protocols_df[1].name = protocols_df[2].name
    /\ protocols_df[1].symbol # protocols_df[2].symbol
    /\ NameHits(protocols_df[1]) = {1, 2}
    /\ fees_df[1].symbol = fees_df[2].symbol
    /\ Revenue(fees_df[1]) # Revenue(fees_df[2])

\* C2: a name match gives the revenue fields of a revenue row of that
\* normalized name, also when another row matches by symbol; without name
\* match a symbol match gives the fields of a row of that normalized symbol;
\* otherwise the three fields are 0. Every merge completes.
JoinCorrectness ==
    Merged =>
        /\ Len(merged_df) = Len(protocols_df)
        /\ \A i \in 1..Len(protocols_df) :
              LET p == protocols_df[i]
                  m == merged_df[i]
              IN  IF NameHits(p) # {}
                  THEN \E j \in NameHits(p) : Revenue(m) = Revenue(fees_df[j])
                  ELSE IF SymbolHits(p) # {}
                  THEN \E j \in SymbolHits(p) : Revenue(m) = Revenue(fees_df[j])
                  ELSE Revenue(m) = ZeroRevenue

\* one protocol matched by name although another revenue row with other
\* values matches its symbol, one matched by symbol only
JoinCorrectnessWitness ==
    /\ pc = "merged"
    /\ Len(protocols_df) = 2 /\ Len(fees_df) = 2
    /\ NameHits(protocols_df[1]) = {1} /\ SymbolHits(protocols_df[1]) = {2}
    /\ NameHits(protocols_df[2]) = {} /\ SymbolHits(protocols_df[2]) = {2}
    /\ Revenue(fees_df[1]) # Revenue(fees_df[2])
    /\ Revenue(merged_df[1]) = Revenue(fees_df[1])
    /\ Revenue(merged_df[2]) = Revenue(fees_df[2])

\* C3: among revenue rows of one normalized name only the first in input
\* order is used; in the symbol fallback only the first row of that
\* normalized symbol in the whole revenue table is used.
FirstOccurrenceWins ==
    Merged =>
        /\ Len(merged_df) = Len(protocols_df)
        /\ \A i \in 1..Len(protocols_df) :
              LET p == protocols_df[i]
                  m == merged_df[i]
              IN  /\ NameHits(p) # {} => Revenue(m) = Revenue(fees_df[Min(NameHits(p))])
                  /\ NameHits(p) = {} /\ SymbolHits(p) # {} =>
                        Revenue(m) = Revenue(fees_df[Min(SymbolHits(p))])

\* two revenue rows of one name and one symbol with different values, taken
\* by name by the first protocol and by symbol by the second
FirstOccurrenceWitness ==
    /\ pc = "merged"
    /\ Len(protocols_df) = 2 /\ Len(fees_df) = 2
    /\ NameHits(protocols_df[1]) = {1, 2}
    /\ NameHits(protocols_df[2]) = {} /\ SymbolHits(protocols_df[2]) = {1, 2}
    /\ Revenue(fees_df[1]) # Revenue(fees_df[2])
    /\ Revenue(merged_df[1]) = Revenue(fees_df[1])
    /\ Revenue(merged_df[2]) = Revenue(fees_df[1])

-----------------------------------------------------------------------------
(* Properties of calculate_financial_metrics *)

HasMetrics == pc \in {"metrics", "scored"}

\* x = n as numbers
IsInt(x, n) == x = <<n, 1>>

\* C4: ps_ratio is +inf exactly in the rows with annualized_revenue <= 0; in
\* every other row ps_ratio * annualized_revenue = mcap, so ps_ratio is 0
\* exactly when mcap is 0.
PsInfinityLaw ==
    HasMetrics =>
        \A i \in 1..Len(metrics_df) :
            LET row == metrics_df[i]
            IN  /\ (row.ps_ratio = Inf) <=> RLe(row.annualized_revenue, R(0))
                /\ row.ps_ratio # Inf =>
                      /\ IsFinite(row.ps_ratio)
                      /\ RMul(row.ps_ratio, row.annualized_revenue) = row.mcap
                      /\ (row.mcap = R(0) <=> row.ps_ratio = R(0))

\* a batch with a row without revenue, a row with revenue and mcap 0 and a
\* row with revenue and mcap > 0
PsInfinityWitness ==
    /\ pc = "metrics"
    /\ \E i, j, k \in 1..Len(metrics_df) :
          /\ metrics_df[i].ps_ratio = Inf /\ RGt(metrics_df[i].mcap, R(0))
          /\ metrics_df[j].ps_ratio = R(0) /\ RGt(metrics_df[j].annualized_revenue, R(0))
          /\ IsFinite(metrics_df[k].ps_ratio) /\ RGt(metrics_df[k].ps_ratio, R(0))

\* C7: annualized_revenue is total30d * 12 when total30d > 0 and
\* total24h * 365 otherwise, and is never negative.
AnnualizationRule ==
    HasMetrics =>
        \A i \in 1..Len(metrics_df) :
            LET row == metrics_df[i]
            IN  /\ row.total30d[2] = 1 /\ row.total24h[2] = 1
                /\ row.total30d[1] > 0 => IsInt(row.annualized_revenue, 12 * row.total30d[1])
                /\ row.total30d[1] <= 0 => IsInt(row.annualized_revenue, 365 * row.total24h[1])
                /\ RGe(row.annualized_revenue, R(0))

\* a row annualized from its 30-day total although it has a 24h value, next
\* to a row annualized from its 24h value
AnnualizationWitness ==
    /\ pc = "metrics"
    /\ \E i, j \in 1..Len(metrics_df) :
          /\ RGt(metrics_df[i].total30d, R(0)) /\ RGt(metrics_df[i].total24h, R(0))
          /\ metrics_df[i].total30d[1] * 12 # metrics_df[i].total24h[1] * 365
          /\ metrics_df[j].total30d = R(0) /\ RGt(metrics_df[j].total24h, R(0))
          /\ RGt(metrics_df[j].annualized_revenue, R(0))

\* rows whose ps_ratio is finite, > 0 and < 1000
Qualifying ==
    {i \in 1..Len(metrics_df) :
        LET ps == metrics_df[i].ps_ratio
        IN  ps[2] > 0 /\ ps[1] > 0 /\ ps[1] < 1000 * ps[2]}

\* x is the k-th smallest ps_ratio among the qualifying rows
IsKthQualifying(x, k) ==
    /\ \E i \in Qualifying : metrics_df[i].ps_ratio = x
    /\ Cardinality({i \in Qualifying : RLt(metrics_df[i].ps_ratio, x)}) <= k - 1
    /\ Cardinality({i \in Qualifying : RLe(metrics_df[i].ps_ratio, x)}) >= k

\* m is the median of the ps_ratio values of the qualifying rows
IsQualifyingMedian(m) ==
    LET n == Cardinality(Qualifying)
        values == {metrics_df[i].ps_ratio : i \in Qualifying}
    IN  IF n % 2 = 1 THEN IsKthQualifying(m, (n + 1) \div 2)
        ELSE \E a, b \in values :
                /\ IsKthQualifying(a, n \div 2)
                /\ IsKthQualifying(b, n \div 2 + 1)
                /\ RMul(m, R(2)) = RAdd(a, b)

\* C6: every row of a batch carries the same sector_median_ps: the median of
\* the ps_ratio values of exactly the rows with 0 < ps_ratio < 1000, or 10
\* when there is no such row.
SectorMedianLaw ==
    HasMetrics =>
        \A i \in 1..Len(metrics_df) :
            /\ metrics_df[i].sector_median_ps = metrics_df[1].sector_median_ps
            /\ IF Qualifying = {} THEN metrics_df[i].sector_median_ps = R(10)
               ELSE IsQualifyingMedian(metrics_df[i].sector_median_ps)

\* two qualifying rows with different ratios next to a row with ps_ratio
\* exactly 1000, the median lying strictly between the two
SectorMedianWitness ==
    /\ pc = "metrics"
    /\ Len(metrics_df) = 3
    /\ Cardinality(Qualifying) = 2
    /\ \E i, j, k \in 1..3 :
          /\ Qualifying = {i, j}
          /\ metrics_df[k].ps_ratio = R(1000)
          /\ RLt(metrics_df[i].ps_ratio, metrics_df[1].sector_median_ps)
          /\ RLt(metrics_df[1].sector_median_ps, metrics_df[j].ps_ratio)

\* C8: fair_value = annualized_revenue * sector_median_ps; with mcap > 0
\* upside_potential * mcap = (fair_value - mcap) * 100, with mcap <= 0 it is
\* 0; it is always a finite number, and not below -100.
UpsideLaw ==
    HasMetrics =>
        \A i \in 1..Len(metrics_df) :
            LET row == metrics_df[i]
                ar == row.annualized_revenue
                md == row.sector_median_ps
                fv == row.fair_value
                up == row.upside_potential
            IN  /\ IsFinite(fv)
                /\ fv[1] * ar[2] * md[2] = ar[1] * md[1] * fv[2]
                /\ IsFinite(up)
                /\ row.mcap[1] > 0 => RMul(up, row.mcap) = RMul(RSub(fv, row.mcap), R(100))
                /\ row.mcap[1] <= 0 => up = R(0)
                /\ up[1] >= -100 * up[2]

\* a row with mcap 0 and a positive fair value, a row with negative and a row
\* with positive upside
UpsideWitness ==
    /\ pc = "metrics"
    /\ \E i, j, k \in 1..Len(metrics_df) :
          /\ metrics_df[i].mcap = R(0) /\ RGt(metrics_df[i].fair_value, R(0))
          /\ metrics_df[i].upside_potential = R(0)
          /\ RLt(metrics_df[j].upside_potential, R(0))
          /\ RGt(metrics_df[k].upside_potential, R(0))

-----------------------------------------------------------------------------
(* Properties of calculate_venture_score *)

Scored == pc = "scored"

\* x is a finite number with lo <= x <= hi
Within(x, lo, hi) == x[2] > 0 /\ lo * x[2] <= x[1] /\ x[1] <= hi * x[2]

\* C5: every row of the scored table has finite scores, valuation_score in
\* [0, 40], trend_score in [0, 30], efficiency_score in [0, 30] and
\* venture_score in [0, 100].
ScoreBounds ==
    Scored =>
        \A i \in 1..Len(scored_df) :
            /\ Within(scored_df[i].valuation_score, 0, 40)
            /\ Within(scored_df[i].trend_score, 0, 30)
            /\ Within(scored_df[i].efficiency_score, 0, 30)
            /\ Within(scored_df[i].venture_score, 0, 100)

\* a scored batch with a row of infinite ps_ratio, a row with mcap 0 and a
\* row whose upside exceeds the 200 cap and gets the full 40 points
ScoreBoundsWitness ==
    /\ Scored
    /\ \E i, j, k \in 1..Len(scored_df) :
          /\ scored_df[i].ps_ratio = Inf /\ scored_df[i].total7d = R(0)
          /\ scored_df[j].mcap = R(0)
          /\ RGt(scored_df[k].upside_potential, R(200))
          /\ scored_df[k].valuation_score = R(40)

\* C9: with daily_avg_7d = total7d / 7 > 0 the trend is
\* (total24h - daily_avg_7d) / daily_avg_7d * 100 and the status "Calculated";
\* otherwise the trend is 0 and the status "Insufficient Data"; trend_score
\* is (clamp(trend, -50, 50) + 50) / 100 * 30.
TrendLaw ==
    Scored =>
        \A i \in 1..Len(scored_df) :
            LET row == scored_df[i]
                t7 == row.total7d
                tr == row.revenue_trend
                ts == row.trend_score
            IN  /\ row.daily_avg_7d[1] * t7[2] * 7 = t7[1] * row.daily_avg_7d[2]
                /\ IF row.daily_avg_7d[1] > 0 /\ row.daily_avg_7d[2] > 0
                   THEN /\ RMul(tr, row.daily_avg_7d) =
                              RMul(RSub(row.total24h, row.daily_avg_7d), R(100))
                        /\ row.revenue_trend_status = "Calculated"
                   ELSE /\ tr = R(0)
                        /\ row.revenue_trend_status = "Insufficient Data"
                /\ IsFinite(tr) /\ IsFinite(ts)
                /\ tr[1] <= -50 * tr[2] => ts = R(0)
                /\ tr[1] >= 50 * tr[2] => ts = R(30)
                /\ -50 * tr[2] < tr[1] /\ tr[1] < 50 * tr[2] =>
                      RMul(ts, R(10)) = RMul(RAdd(tr, R(50)), R(3))

\* a row with a 24h value but no 7-day total (fallback), a row clamped at
\* +50 and a row clamped at -50
TrendWitness ==
    /\ Scored
    /\ \E i, j, k \in 1..Len(scored_df) :
          /\ scored_df[i].total7d = R(0) /\ RGt(scored_df[i].total24h, R(0))
          /\ scored_df[i].revenue_trend_status = "Insufficient Data"
          /\ RGt(scored_df[j].revenue_trend, R(50)) /\ scored_df[j].trend_score = R(30)
          /\ RLt(scored_df[k].revenue_trend, R(-50)) /\ scored_df[k].trend_score = R(0)

\* C10: venture_score is the sum of the three sub-scores rounded to one
\* decimal: a multiple of 0.1 at most 0.05 away from the sum. The sum, and so
\* the rounded sum, lies in [0, 100]: the final clamp changes nothing.
CompositeLaw ==
    Scored =>
        \A i \in 1..Len(scored_df) :
            LET row == scored_df[i]
                sum == RAdd(RAdd(row.valuation_score, row.trend_score), row.efficiency_score)
                v == row.venture_score
                \* 20 * (v - sum) as a fraction n / d with d > 0
                diff == RMul(RSub(v, sum), R(20))
            IN  /\ IsFinite(v) /\ 10 % v[2] = 0
                /\ -diff[2] <= diff[1] /\ diff[1] <= diff[2]
                /\ Within(sum, 0, 100)

\* a row scoring the full 100 and a row whose sum is not a multiple of 0.1
CompositeWitness ==
    /\ Scored
    /\ \E i, j \in 1..Len(scored_df) :
          /\ scored_df[i].venture_score = R(100)
          /\ 10 % RAdd(RAdd(scored_df[j].valuation_score, scored_df[j].trend_score),
                       scored_df[j].efficiency_score)[2] # 0

\* the row has no revenue after reconciliation
NoRevenue(row) == Revenue(row) = ZeroRevenue

\* upside, valuation and trend of the rows without revenue
NoRevenueSubScores(row) ==
    /\ RGt(row.mcap, R(0)) =>
          /\ row.upside_potential = R(-100)
          /\ row.valuation_score = R(0)
    /\ row.trend_score = R(15)
    /\ row.revenue_trend_status = "Insufficient Data"
    /\ row.mcap = R(0) =>
          /\ row.upside_potential = R(0)
          /\ row.valuation_score = Rat(40, 3)
          /\ row.efficiency_score = R(0)

\* C17 as stated: a row without revenue and with mcap > 0 has upside -100,
\* valuation_score 0, trend_score 15 with status "Insufficient Data", and its
\* venture_score equals 15 plus its efficiency_score; with mcap = 0 it has
\* valuation_score 40/3 and efficiency_score 0.
NoRevenueScoreExact ==
    Scored =>
        \A i \in 1..Len(scored_df) :
            NoRevenue(scored_df[i]) =>
                /\ NoRevenueSubScores(scored_df[i])
                /\ RGt(scored_df[i].mcap, R(0)) =>
                      scored_df[i].venture_score = RAdd(R(15), scored_df[i].efficiency_score)

\* C17 amended: as above, but the venture_score of a row without revenue and
\* with mcap > 0 is 15 plus its efficiency_score rounded to one decimal place:
\* a multiple of 0.1 at most 0.05 away from 15 + efficiency_score.
NoRevenueScore ==
    Scored =>
        \A i \in 1..Len(scored_df) :
            NoRevenue(scored_df[i]) =>
                /\ NoRevenueSubScores(scored_df[i])
                /\ RGt(scored_df[i].mcap, R(0)) =>
                      LET v == scored_df[i].venture_score
                          diff == RMul(RSub(v, RAdd(R(15), scored_df[i].efficiency_score)), R(20))
                      IN  /\ IsFinite(v) /\ 10 % v[2] = 0
                          /\ -diff[2] <= diff[1] /\ diff[1] <= diff[2]

\* a batch with a row without revenue whose 15 + efficiency_score is not a
\* multiple of 0.1, a row without revenue and with mcap 0, and a row with
\* revenue that moves the sector median away from its default
NoRevenueScoreWitness ==
    /\ Scored
    /\ \E i, j, k \in 1..Len(scored_df) :
          /\ NoRevenue(scored_df[i]) /\ RGt(scored_df[i].mcap, R(0))
          /\ 10 % RAdd(R(15), scored_df[i].efficiency_score)[2] # 0
          /\ NoRevenue(scored_df[j]) /\ scored_df[j].mcap = R(0)
          /\ ~NoRevenue(scored_df[k]) /\ scored_df[k].sector_median_ps # R(10)

-----------------------------------------------------------------------------
(* Frame of the three stages *)

FEE_FIELDS == {"name", "symbol", "total24h", "total7d", "total30d"}
HELPER_FIELDS == {"name_lower", "symbol_lower"}

\* no row of df has a helper column
NoHelperFields(df) == \A i \in 1..Len(df) : DOMAIN df[i] \cap HELPER_FIELDS = {}

\* the step of each stage leaves the tables passed to it as they were
StageKeepsArguments ==
    /\ pc = "load" /\ pc' = "merged" => protocols_df' = protocols_df /\ fees_df' = fees_df
    /\ pc = "merged" /\ pc' = "metrics" => merged_df' = merged_df
    /\ pc = "metrics" /\ pc' = "scored" => metrics_df' = metrics_df

\* C12: merge_datasets, calculate_financial_metrics and calculate_venture_score
\* leave the tables passed to them with the same rows, columns and values, no
\* helper column name_lower or symbol_lower is left on an input, and neither
\* helper column appears in the output of merge_datasets.
NoMutation ==
    /\ [](NoHelperFields(protocols_df) /\ NoHelperFields(fees_df) /\ NoHelperFields(merged_df))
    /\ [][StageKeepsArguments]_vars

\* all three stages have run on two protocols and two revenue rows, the second
\* protocol got its revenue through the symbol fallback, and the inputs still
\* have their own columns only
NoMutationWitness ==
    /\ pc = "scored"
    /\ Len(protocols_df) = 2 /\ Len(fees_df) = 2 /\ Len(merged_df) = 2
    /\ NameHits(protocols_df[2]) = {} /\ SymbolHits(protocols_df[2]) # {}
    /\ Revenue(merged_df[2]) # ZeroRevenue
    /\ \A i \in 1..2 : /\ DOMAIN protocols_df[i] = PROTOCOL_COLUMNS
                        /\ DOMAIN fees_df[i] = FEE_FIELDS
                        /\ DOMAIN merged_df[i] = PROTOCOL_COLUMNS \cup {"total24h", "total7d", "total30d"}
    /\ "venture_score" \in DOMAIN scored_df[1]
    /\ "venture_score" \notin DOMAIN metrics_df[1]

-----------------------------------------------------------------------------
(* Properties of fetch_protocols_data and fetch_fees_data *)

ProtocolsFetched == pc \notin {"fetch_protocols", "crashed"}
FeesFetched == pc \notin {"fetch_protocols", "fetch_fees", "crashed"}

\* the try block of the fetch raised on the response it got
ProtocolsFetchFailed == FetchProtocolsBody(protocols_response).raised
FeesFetchFailed == FetchFeesBody(fees_response).raised

\* the table is one that get_sample_protocols_data / get_sample_fees_data builds
IsSampleTable(df) ==
    /\ Len(df) = MaxSample
    /\ \A i \in 1..Len(df) : df[i].name = SampleName(i) /\ df[i].symbol = SampleSymbol(i)

\* C13: no fetch lets an exception out. Whatever the endpoint answers (HTTP
\* error, timeout, invalid JSON, no 'protocols' key, unusable payload), each
\* fetch returns a table; when its try block failed the table is the synthetic
\* one, and real and synthetic tables have the same fields: name, symbol, tvl,
\* mcap, category, chains, primary_chain, and name, symbol, total24h, total7d,
\* total30d, with numbers in the numeric fields.
FetchNeverRaises ==
    /\ pc # "crashed"
    /\ ProtocolsFetched =>
          /\ protocols_columns = PROTOCOL_COLUMNS \cup {"category", "chains", "primary_chain"}
          /\ \A i \in 1..Len(protocols_df) :
                /\ DOMAIN protocols_df[i] = protocols_columns
                /\ IsFinite(protocols_df[i].tvl) /\ IsFinite(protocols_df[i].mcap)
          /\ ProtocolsFetchFailed => IsSampleTable(protocols_df)
    /\ FeesFetched =>
          /\ fees_df # <<>>
          /\ \A i \in 1..Len(fees_df) :
                /\ DOMAIN fees_df[i] = FEE_FIELDS
                /\ \A c \in {"total24h", "total7d", "total30d"} : IsFinite(fees_df[i][c])
          /\ FeesFetchFailed => IsSampleTable(fees_df)

\* the protocols request got an HTTP error and the fees payload had no
\* 'protocols' key; the three stages ran on the two synthetic tables and
\* joined their rows by name
FetchNeverRaisesWitness ==
    /\ pc = "scored"
    /\ protocols_response = Failure("http_error")
    /\ fees_response = Failure("no_protocols_key")
    /\ IsSampleTable(protocols_df) /\ IsSampleTable(fees_df)
    /\ Len(scored_df) = MaxSample
    /\ \A i \in 1..Len(scored_df) : Revenue(scored_df[i]) = Revenue(fees_df[i])
                                       /\ ~NoRevenue(scored_df[i])

\* C14: whenever a fetch fails and a synthetic table is substituted, for the
\* protocols, for the fees or for both, a notice that real data was
\* unavailable has been shown.
FailureIsNoticed ==
    FeesFetched => (ProtocolsFetchFailed \/ FeesFetchFailed => notices # <<>>)

\* C15: a protocols payload whose objects lack one of the required fields
\* name, symbol, tvl, mcap altogether is not accepted: no table comes out of
\* the pipeline for it.
MissingFieldFailsFast ==
    /\ protocols_response.kind = "json"
    /\ protocols_response.data # <<>>
    /\ ~(PROTOCOL_COLUMNS \subseteq DataFrameColumns(protocols_response.data))
    => merged_df = <<>> /\ metrics_df = <<>> /\ scored_df = <<>>

-----------------------------------------------------------------------------
(* Symbol fallback on fetched tables *)

HasMerged == pc \in {"merged", "metrics", "scored"}

\* revenue rows whose symbol is present and normalizes to the empty string
EmptySymbolFees ==
    {j \in 1..Len(fees_df) :
        NotNa(fees_df[j].symbol) /\ StrLowerStrip(fees_df[j].symbol) = <<>>}

\* C16: a protocol unmatched by name whose symbol is null keeps zero revenue;
\* one whose normalized symbol is the empty string gets the revenue fields of
\* the first revenue row whose normalized symbol is empty, when there is one;
\* a fees object without symbol is ingested with the symbol ''.
EmptySymbolIsAKey ==
    /\ FeesFetched /\ ~FeesFetchFailed =>
          \A j \in 1..Len(fees_df) :
              "symbol" \notin DOMAIN fees_response.data[j] => fees_df[j].symbol = <<>>
    /\ HasMerged =>
          \A i \in 1..Len(protocols_df) :
              NameHits(protocols_df[i]) = {} =>
                  /\ protocols_df[i].symbol = NA => NoRevenue(merged_df[i])
                  /\ NotNa(protocols_df[i].symbol)
                        /\ StrLowerStrip(protocols_df[i].symbol) = <<>> =>
                        IF EmptySymbolFees # {}
                        THEN Revenue(merged_df[i]) = Revenue(fees_df[Min(EmptySymbolFees)])
                        ELSE NoRevenue(merged_df[i])

\* three protocols unmatched by name: two of different names whose symbols
\* normalize to '' both carry the revenue of the first fees row, which came
\* without symbol, although a second row with empty symbol has other values;
\* the third, without symbol, has no revenue
EmptySymbolIsAKeyWitness ==
    /\ pc = "merged"
    /\ Len(protocols_df) = 3 /\ Len(fees_df) = 2
    /\ \A i \in 1..3 : NameHits(protocols_df[i]) = {}
    /\ StrLowerStrip(protocols_df[1].name) # StrLowerStrip(protocols_df[2].name)
    /\ StrLowerStrip(protocols_df[1].symbol) = <<>> /\ protocols_df[2].symbol = <<>>
    /\ protocols_df[3].symbol = NA
    /\ "symbol" \notin DOMAIN fees_response.data[1]
    /\ EmptySymbolFees = {1, 2} /\ Revenue(fees_df[1]) # Revenue(fees_df[2])
    /\ Revenue(merged_df[1]) = Revenue(fees_df[1])
    /\ Revenue(merged_df[2]) = Revenue(fees_df[1])
    /\ ~NoRevenue(merged_df[1])
    /\ NoRevenue(merged_df[3])

-----------------------------------------------------------------------------
(* Properties of the TVL unit switch *)

\* C18: a run of render_sidebar_filters that finds the unit switched, the
\* slider and the number input untouched since the last run, returns the
\* min_tvl of the last run, so that apply_filters selects the same rows as
\* with the last threshold, and leaves tvl_unit_prev at the selected unit.
UnitSwitchKeepsThreshold ==
    [][pc = "scored" /\ pc' = "filters"
         /\ "tvl_unit_prev" \in DOMAIN session_state
         /\ session_state.tvl_unit_prev # tvl_unit
       => /\ min_tvl' = min_tvl
          /\ apply_filters(scored_df, selected_categories, selected_chains, min_tvl') =
                apply_filters(scored_df, selected_categories, selected_chains, min_tvl)
          /\ session_state'.tvl_unit_prev = tvl_unit]_vars

====
